---- MODULE Spec2Model ----
(***************************************************************************)
(* Model of the incremental index engine of mcp/code-RAG (rag_engine.py)   *)
(* together with the fixed-window chunker it calls (chunker.py).           *)
(*                                                                         *)
(* One engine instance works on one database directory.  The database      *)
(* holds the "code_chunks" table and the file_hashes.json map; the engine  *)
(* holds a table handle (self.table) and the in-memory map                 *)
(* (self._file_hashes).  The source tree is a fixed set of files whose     *)
(* contents are rewritten from outside.                                    *)
(*                                                                         *)
(* A file content is abstracted to [n, w]: n lines, each holding w         *)
(* non-blank characters (w = 0: blank lines only).  Two contents are       *)
(* different texts iff they differ in n or w.                              *)
(***************************************************************************)
EXTENDS Integers, FiniteSets, Sequences, TLC

\* ---------------------------------------------------------------- bounds
\* outside changes to the source tree (rewrites, permission changes) in one behaviour
MaxEdits == 1

\* ------------------------------------------------------ program constants
CHUNK_LINES == 60
OVERLAP_LINES == 10
MIN_CHUNK_CHARS == 10

\* ------------------------------------------------------------ the universe
\* Files of a language without a structural parser (".css": tree_sitter None),
\* so chunk_by_functions takes the fixed-window tier.
Files == {"a.css", "b.css"}

\* a blank file, two one-line files with different text, a file of two windows
Contents ==
    { [n |-> 1, w |-> 0],
      [n |-> 1, w |-> 12],
      [n |-> 1, w |-> 13],
      [n |-> 61, w |-> 13] }

\* a map entry is the set of hashes recorded for the key: empty (no entry) or one
NoHash == {}

Min(a, b) == IF a < b THEN a ELSE b

\* ------------------------------------------------------------- _file_hash
\* sha256(content)[:16]: a digest, modelled as a code that is collision-free
\* on the bounded content set.
FileHash(c) == c.n * 31 + c.w

\* ------------------------------------------------ _chunk_by_lines_fallback
RECURSIVE WindowsFrom_NoClamp(_, _)
WindowsFrom_NoClamp(i, n) ==
    LET end == i + CHUNK_LINES
        chunk == [start_line |-> i + 1, end_line |-> end]
    IN IF end >= n
         THEN {chunk}
         ELSE {chunk} \cup WindowsFrom_NoClamp(i + (CHUNK_LINES - OVERLAP_LINES), n)

RECURSIVE WindowsFrom_NoOverlap(_, _)
WindowsFrom_NoOverlap(i, n) ==
    LET end == Min(i + CHUNK_LINES, n)
        chunk == [start_line |-> i + 1, end_line |-> end]
    IN IF end >= n
         THEN {chunk}
         ELSE {chunk} \cup WindowsFrom_NoOverlap(i + CHUNK_LINES, n)

RECURSIVE WindowsFrom(_, _)
WindowsFrom(i, n) ==
    LET end == Min(i + CHUNK_LINES, n)
        chunk == [start_line |-> i + 1, end_line |-> end]
    IN IF end >= n
         THEN {chunk}
         ELSE {chunk} \cup WindowsFrom(i + (CHUNK_LINES - OVERLAP_LINES), n)

ChunkByLinesFallback(c) ==
    IF c.n <= CHUNK_LINES
      THEN {[start_line |-> 1, end_line |-> c.n]}
      ELSE WindowsFrom(0, c.n)

\* chunk_by_functions for a language whose tree_sitter entry is None
ChunkByFunctions(c) == ChunkByLinesFallback(c)

\* len(chunk["content"].strip()): k lines of w characters joined by "\n"
TrimmedLen(c, ch) ==
    LET k == ch.end_line - ch.start_line + 1
    IN IF c.w = 0 THEN 0 ELSE k * c.w + (k - 1)

\* the records index_directory builds for one file (the loop over chunks)
RecordsOf(f, c) ==
    { [id         |-> <<f, ch.start_line, ch.end_line>>,
       source     |-> f,
       start_line |-> ch.start_line,
       end_line   |-> ch.end_line,
       content    |-> [of |-> c, from |-> ch.start_line, to |-> ch.end_line]]
      : ch \in {x \in ChunkByFunctions(c) : TrimmedLen(c, x) >= MIN_CHUNK_CHARS} }

EmptyHashes == [f \in Files |-> NoHash]

\* ------------------------------------------------------------------ state
VARIABLES
    fs,          \* file -> content on disk (the walked source tree)
    unreadable,  \* files whose read_text raises
    edits,       \* number of outside changes to the source tree so far
    dbTable,     \* the "code_chunks" table in the database: [exists, rows]
    diskHashes,  \* file_hashes.json
    tableOpen,   \* self.table is not None
    memHashes,   \* self._file_hashes
    lastOp,      \* the call that produced this state and how it ended
    lastRun,     \* what the last index_directory call did and returned
    out,         \* what the last search / get_status call returned
    scope        \* "never_indexed", "cleared" (by clear(), nothing written since) or "written"

engineVars == <<fs, unreadable, edits, dbTable, diskHashes, tableOpen, memHashes,
                lastOp, lastRun, out, scope>>

\* the call under study of the fixed-window chunkers (SpecWindows)
VARIABLES
    winN,        \* number of lines of the text handed to the chunker
    winOp,       \* "none", or the chunker that was called
    winOut       \* the windows it returned

windowVars == <<winN, winOp, winOut>>

\* the knowledge table of one engine under compaction (SpecCompact)
VARIABLES
    kTable,      \* the "knowledge" table: [exists, rows], rows in table order
    kHandle,     \* self.knowledge_table is not None
    kOp,         \* "none" or "compact_knowledge"
    kOut,        \* what compact_knowledge returned
    kBefore      \* the rows the last compact_knowledge call read

compactVars == <<kTable, kHandle, kOp, kOut, kBefore>>

\* one call of chunk_by_functions for a language with a parser (SpecChunker)
VARIABLES
    srcText,     \* the source: a sequence of runs of lines [len, blank]
    srcTree,     \* the children of the syntax tree's root node
    srcLang,     \* the language argument
    chOp,        \* "none" or "chunk_by_functions"
    chOut        \* [tier, chunks]: what chunk_by_functions returned

chunkerVars == <<srcText, srcTree, srcLang, chOp, chOut>>

\* a project's files and the dependency queries on it (SpecDeps)
VARIABLES
    depIncludes, \* source file -> the paths its #include lines name
    depResults,  \* queried path -> what get_dependency_graph returned for it
    depImpact    \* [called, changed, impact]: the last analyze_diff, its diff and result

depVars == <<depIncludes, depResults, depImpact>>

\* the two engines of the server and their databases (SpecScopes)
VARIABLES
    sStore,      \* db_path -> [tables: name -> [exists, rows], hashes: file_hashes.json]
    sEngine,     \* engine -> [table, knowledge_table: handle is not None, file_hashes]
    sLast        \* [engine, op]: the last call and the engine it was made on

scopeVars == <<sStore, sEngine, sLast>>

\* one index_directory call taken statement by statement, with searches of
\* other callers in between (SpecRun)
VARIABLES
    rFs,         \* file -> content on disk during the call
    rFault,      \* file -> "none", "read" (read_text raises), "chunk" (chunk_by_functions
                 \* raises), "deleted" (removed from the tree since the earlier run)
    rTable,      \* the "code_chunks" table: [exists, rows]
    rHandle,     \* self.table is not None
    rMem,        \* self._file_hashes
    rDisk,       \* file_hashes.json
    rPc,         \* "idle", "scan", "save", "done", "raised": where the call is
    rTodo,       \* the files the loop has not reached yet
    rPending,    \* pending_chunks
    rPre,        \* [rows, hashes]: the table and self._file_hashes when the call began
    rSeen        \* [rows, pc]: the table version the last search ran on, and when

runVars == <<rFs, rFault, rTable, rHandle, rMem, rDisk, rPc, rTodo, rPending, rPre, rSeen>>

\* get_type_hierarchy as a function of the declarations it finds (SpecTypes)
VARIABLES
    thDecls,     \* the class / interface / impl matches, in the order they are found
    thOut        \* [called, types]: types is the dict of the result, in insertion order

typeVars == <<thDecls, thOut>>

\* walk_code_files with library roots configured (SpecWalk)
VARIABLES
    wFiles,      \* the code files below the project root (paths as components)
    wLibs,       \* _config["rag_libs"]: the library roots, relative to the project root
    wOut         \* [called, exclude_libs, files]: the last walk and what it yielded

walkVars == <<wFiles, wLibs, wOut>>

\* what the actions of one specification leave alone: the other groups
OthersUnchanged(group) ==
    /\ group # "engine" => UNCHANGED engineVars
    /\ group # "windows" => UNCHANGED windowVars
    /\ group # "compact" => UNCHANGED compactVars
    /\ group # "chunker" => UNCHANGED chunkerVars
    /\ group # "deps" => UNCHANGED depVars
    /\ group # "scopes" => UNCHANGED scopeVars
    /\ group # "run" => UNCHANGED runVars
    /\ group # "types" => UNCHANGED typeVars
    /\ group # "walk" => UNCHANGED walkVars

vars == <<engineVars, windowVars, compactVars, chunkerVars, depVars, scopeVars, runVars,
          typeVars, walkVars>>

NoTable == [exists |-> FALSE, rows |-> {}]
NoStatus == [indexed |-> FALSE, total_chunks |-> 0, total_files |-> 0]
NoResult == [total_files |-> 0, indexed |-> 0, skipped_unchanged |-> 0, chunks_created |-> 0]
NoRun == [changed |-> {}, skipped |-> {}, replaced |-> {}, result |-> NoResult]
NoOut == [raised |-> FALSE, rows |-> {}, status |-> NoStatus]

IndexOps == {"index_ok", "index_embed_error", "index_store_error"}
ConstructOps == {"construct", "construct_healed"}

\* rows a reader of the database finds
Rows == IF dbTable.exists THEN dbTable.rows ELSE {}

\* ------------------------------------------------------- index_directory
\* files whose read_text succeeds (the walker yields every file)
Readable == Files \ unreadable

\* files that fail the test  self._file_hashes.get(file_key) == content_hash
ChangedFiles(hashes) == {f \in Readable : hashes[f] # {FileHash(fs[f])}}

\* pending_chunks after the loop over files
PendingChunks(changed) == UNION {RecordsOf(f, fs[f]) : f \in changed}

\* self._file_hashes after the loop over files (line 346, inside the loop)
ScanHashes_OnlyWithChunks(hashes, changed) ==
    [f \in Files |-> IF f \in changed /\ RecordsOf(f, fs[f]) # {}
                       THEN {FileHash(fs[f])} ELSE hashes[f]]

ScanHashes(hashes, changed) ==
    [f \in Files |-> IF f \in changed THEN {FileHash(fs[f])} ELSE hashes[f]]

\* self._batch_encode raises: only reached when there is something to encode
EmbedRaises(pending, embedFails) == pending # {} /\ embedFails

StaleSources(pending) == {c.source : c \in pending}

KeepRows_All(existing, stale) == existing

KeepRows(existing, stale) == {r \in existing : r.source \notin stale}

Merged_Append(existing, pending) == existing \cup pending

Merged(existing, pending) == KeepRows(existing, StaleSources(pending)) \cup pending

\* lines 355-369.  mergeFails: to_arrow / filter / create_table of the try
\* block raises (it always does on a handle whose table was dropped);
\* createFails: the create_table that runs outside the try block raises.
WriteTable(open, tbl, pending, mergeFails, createFails) ==
    IF pending = {}
      THEN [ok |-> TRUE, wrote |-> FALSE, table |-> tbl, open |-> open]
    ELSE IF open /\ tbl.exists /\ ~mergeFails
      THEN [ok |-> TRUE, wrote |-> TRUE, open |-> TRUE,
            table |-> [exists |-> TRUE, rows |-> Merged(tbl.rows, pending)]]
    ELSE IF createFails
      THEN [ok |-> FALSE, wrote |-> FALSE, table |-> tbl, open |-> open]
    ELSE [ok |-> TRUE, wrote |-> TRUE, open |-> TRUE,
          table |-> [exists |-> TRUE, rows |-> pending]]

\* file_hashes.json after the call: _save_hashes() is the statement after the
\* table write, reached only when nothing raised before it
SavedHashes_BeforeWrite(completed, hashes, disk) == hashes

SavedHashes(completed, hashes, disk) == IF completed THEN hashes ELSE disk

IndexDirectory(embedFails, mergeFails, createFails) ==
    LET changed == ChangedFiles(memHashes)
        skipped == Readable \ changed
        pending == PendingChunks(changed)
        hashes  == ScanHashes(memHashes, changed)
        aborted == EmbedRaises(pending, embedFails)
        w       == WriteTable(tableOpen, dbTable, pending, mergeFails, createFails)
        done    == ~aborted /\ w.ok
    IN /\ memHashes' = hashes
       /\ dbTable' = IF aborted THEN dbTable ELSE w.table
       /\ tableOpen' = IF aborted THEN tableOpen ELSE w.open
       /\ diskHashes' = SavedHashes(done, hashes, diskHashes)
       /\ scope' = IF done /\ w.wrote THEN "written" ELSE scope
       /\ lastOp' = IF aborted THEN "index_embed_error"
                    ELSE IF ~w.ok THEN "index_store_error" ELSE "index_ok"
       /\ lastRun' =
            [changed  |-> changed,
             skipped  |-> skipped,
             replaced |-> {f \in changed :
                             /\ done /\ w.wrote
                             /\ \E r \in Rows : r.source = f /\ r.content.of # fs[f]
                             /\ \E r \in w.table.rows : r.source = f},
             result   |-> IF done
                            THEN [total_files       |-> Cardinality(Files),
                                  indexed           |-> Cardinality(changed),
                                  skipped_unchanged |-> Cardinality(skipped),
                                  chunks_created    |-> Cardinality(pending)]
                            ELSE NoResult]
       /\ out' = NoOut
       /\ UNCHANGED <<fs, unreadable, edits>>
       /\ OthersUnchanged("engine")

\* a new engine on a new database, any source tree
EngineStart ==
    /\ unreadable = {}
    /\ edits = 0
    /\ dbTable = NoTable
    /\ diskHashes = EmptyHashes
    /\ tableOpen = FALSE
    /\ memHashes = EmptyHashes
    /\ lastOp = "construct"
    /\ lastRun = NoRun
    /\ out = NoOut
    /\ scope = "never_indexed"

\* a source tree: a one-line file and a file of two windows
SourceTree == [f \in Files |-> IF f = "a.css" THEN [n |-> 1, w |-> 12] ELSE [n |-> 61, w |-> 13]]

\* the engine of Spec takes no step; the source tree is there to be read
EngineIdle == fs = SourceTree /\ EngineStart

\* no chunker call is under study
WindowsIdle == winN = 1 /\ winOp = "none" /\ winOut = {}

\* no knowledge table
NoCompactOut == [removed |-> 0, kept |-> 0]

CompactIdle ==
    /\ kTable = [exists |-> FALSE, rows |-> <<>>]
    /\ kHandle = FALSE
    /\ kOp = "none"
    /\ kOut = NoCompactOut
    /\ kBefore = <<>>

NoChunks == [tier |-> "none", chunks |-> {}]

ChunkerIdle ==
    /\ srcText = <<>>
    /\ srcTree = <<>>
    /\ srcLang = "python"
    /\ chOp = "none"
    /\ chOut = NoChunks

NoImpact == [called |-> FALSE, changed |-> {}, impact |-> {}]

DepsIdle == depIncludes = <<>> /\ depResults = <<>> /\ depImpact = NoImpact

ScopesIdle == sStore = <<>> /\ sEngine = <<>> /\ sLast = <<>>

RunIdle ==
    /\ rFs = SourceTree
    /\ rFault = <<>>
    /\ rTable = NoTable
    /\ rHandle = FALSE
    /\ rMem = EmptyHashes
    /\ rDisk = EmptyHashes
    /\ rPc = "idle"
    /\ rTodo = <<>>
    /\ rPending = {}
    /\ rPre = <<>>
    /\ rSeen = <<>>

TypesIdle == thDecls = <<>> /\ thOut = [called |-> FALSE, types |-> <<>>]

WalkIdle ==
    /\ wFiles = {}
    /\ wLibs = {}
    /\ wOut = [called |-> FALSE, exclude_libs |-> FALSE, files |-> {}]

\* everything outside one specification is at rest
OthersIdle(group) ==
    /\ group # "engine" => EngineIdle
    /\ group # "windows" => WindowsIdle
    /\ group # "compact" => CompactIdle
    /\ group # "chunker" => ChunkerIdle
    /\ group # "deps" => DepsIdle
    /\ group # "scopes" => ScopesIdle
    /\ group # "run" => RunIdle
    /\ group # "types" => TypesIdle
    /\ group # "walk" => WalkIdle

Init ==
    /\ fs \in [Files -> Contents]
    /\ EngineStart
    /\ OthersIdle("engine")

\* ----------------------------------------------------------------- search
\* rows matching the language filter ("" = no filter); every file here is css
LanguageOf(f) == "css"

Languages == {"", "css", "python"}

MatchingRows(rows, language) ==
    {r \in rows : language = "" \/ LanguageOf(r.source) = language}

\* encodeFails: self.model.encode(query) raises (it runs outside the try).
\* A handle whose table was dropped makes builder.to_list() raise, which the
\* try block turns into [].
Search(language, encodeFails) ==
    /\ out' = IF ~tableOpen THEN NoOut
              ELSE IF encodeFails THEN [NoOut EXCEPT !.raised = TRUE]
              ELSE [NoOut EXCEPT !.rows = MatchingRows(Rows, language)]
    /\ lastOp' = "search"
    /\ lastRun' = NoRun
    /\ UNCHANGED <<fs, unreadable, edits, dbTable, diskHashes, tableOpen,
                   memHashes, scope>>
    /\ OthersUnchanged("engine")

\* ------------------------------------------------------- _try_open_table
\* openFails: open_table raises although the table exists
TryOpenTable(tbl, openFails) == tbl.exists /\ ~openFails

\* ------------------------------------------------------------- get_status
StatusOf(open, rows) ==
    IF ~open THEN NoStatus
    ELSE [indexed      |-> TRUE,
          total_chunks |-> Cardinality(rows),
          total_files  |-> Cardinality({r.source : r \in rows})]

GetStatus(openFails) ==
    LET open == TryOpenTable(dbTable, openFails)
    IN /\ tableOpen' = open
       /\ out' = [NoOut EXCEPT !.status = StatusOf(open, Rows)]
       /\ lastOp' = "get_status"
       /\ lastRun' = NoRun
       /\ UNCHANGED <<fs, unreadable, edits, dbTable, diskHashes, memHashes, scope>>
       /\ OthersUnchanged("engine")

\* ------------------------------------------------------------------ clear
\* drop_table raises only when there is no table; that is swallowed
DropTable(tbl) == NoTable

HandleAfterClear_Keep(open) == open

HandleAfterClear(open) == FALSE

Clear ==
    /\ dbTable' = DropTable(dbTable)
    /\ tableOpen' = HandleAfterClear(tableOpen)
    /\ memHashes' = EmptyHashes
    /\ diskHashes' = EmptyHashes
    /\ scope' = "cleared"
    /\ lastOp' = "clear"
    /\ lastRun' = NoRun
    /\ out' = NoOut
    /\ UNCHANGED <<fs, unreadable, edits>>
    /\ OthersUnchanged("engine")

\* ------------------------------------------------- __init__ (a new engine)
\* _validate_cache: TRUE iff the cache is cleared (and saved)
CacheInvalid_MissingOnly(hashes, open, tbl) ==
    hashes # EmptyHashes /\ ~open

CacheInvalid(hashes, open, tbl) ==
    \/ hashes # EmptyHashes /\ ~open
    \/ open /\ hashes # EmptyHashes /\ Cardinality(tbl.rows) = 0

\* _load_hashes, _try_open_table, _validate_cache
Construct(openFails) ==
    LET loaded == diskHashes
        open   == TryOpenTable(dbTable, openFails)
        heal   == CacheInvalid(loaded, open, dbTable)
    IN /\ tableOpen' = open
       /\ memHashes' = IF heal THEN EmptyHashes ELSE loaded
       /\ diskHashes' = IF heal THEN EmptyHashes ELSE diskHashes
       /\ lastOp' = IF heal THEN "construct_healed" ELSE "construct"
       /\ lastRun' = NoRun
       /\ out' = NoOut
       /\ UNCHANGED <<fs, unreadable, edits, dbTable, scope>>
       /\ OthersUnchanged("engine")

\* ---------------------------------------------------------- the outside
\* a file is rewritten
EditFile(f, c) ==
    /\ edits < MaxEdits
    /\ c # fs[f]
    /\ fs' = [fs EXCEPT ![f] = c]
    /\ edits' = edits + 1
    /\ lastOp' = "edit"
    /\ lastRun' = NoRun
    /\ out' = NoOut
    /\ UNCHANGED <<unreadable, dbTable, diskHashes, tableOpen, memHashes, scope>>
    /\ OthersUnchanged("engine")

\* a file becomes unreadable, or readable again
ToggleReadable(f) ==
    /\ edits < MaxEdits
    /\ edits' = edits + 1
    /\ unreadable' = IF f \in unreadable THEN unreadable \ {f} ELSE unreadable \cup {f}
    /\ lastOp' = "chmod"
    /\ lastRun' = NoRun
    /\ out' = NoOut
    /\ UNCHANGED <<fs, dbTable, diskHashes, tableOpen, memHashes, scope>>
    /\ OthersUnchanged("engine")

\* the table is dropped by another process
ExternalDrop ==
    /\ dbTable.exists
    /\ dbTable' = NoTable
    /\ lastOp' = "external_drop"
    /\ lastRun' = NoRun
    /\ out' = NoOut
    /\ UNCHANGED <<fs, unreadable, edits, diskHashes, tableOpen, memHashes, scope>>
    /\ OthersUnchanged("engine")

\* the table's rows are deleted by another process
ExternalEmpty ==
    /\ dbTable.exists
    /\ dbTable.rows # {}
    /\ dbTable' = [dbTable EXCEPT !.rows = {}]
    /\ lastOp' = "external_empty"
    /\ lastRun' = NoRun
    /\ out' = NoOut
    /\ UNCHANGED <<fs, unreadable, edits, diskHashes, tableOpen, memHashes, scope>>
    /\ OthersUnchanged("engine")

Next ==
    \/ \E embedFails, mergeFails, createFails \in BOOLEAN :
          IndexDirectory(embedFails, mergeFails, createFails)
    \/ \E language \in Languages, encodeFails \in BOOLEAN : Search(language, encodeFails)
    \/ \E openFails \in BOOLEAN : GetStatus(openFails)
    \/ Clear
    \/ \E openFails \in BOOLEAN : Construct(openFails)
    \/ \E f \in Files, c \in Contents : EditFile(f, c)
    \/ \E f \in Files : ToggleReadable(f)
    \/ ExternalDrop
    \/ ExternalEmpty

Spec == Init /\ [][Next]_vars

\* ===================================================== fixed-window chunkers
\* largest text handed to a chunker
MaxFileLines == 170

\* _chunk_by_lines of rag_engine.py: the same loop, returning (start, end, text)
ChunkByLines(n) ==
    IF n <= CHUNK_LINES
      THEN {[start_line |-> 1, end_line |-> n]}
      ELSE WindowsFrom(0, n)

InitWindows ==
    /\ winN \in 1..MaxFileLines
    /\ winOp = "none"
    /\ winOut = {}
    /\ OthersIdle("windows")

\* _chunk_by_lines_fallback(source, language) on a text of winN lines
CallFallback ==
    /\ winOp = "none"
    /\ winOp' = "_chunk_by_lines_fallback"
    /\ winOut' = ChunkByLinesFallback([n |-> winN, w |-> 1])
    /\ UNCHANGED winN
    /\ OthersUnchanged("windows")

\* _chunk_by_lines(text) on a text of winN lines
CallChunkByLines ==
    /\ winOp = "none"
    /\ winOp' = "_chunk_by_lines"
    /\ winOut' = ChunkByLines(winN)
    /\ UNCHANGED winN
    /\ OthersUnchanged("windows")

NextWindows ==
    \/ CallFallback
    \/ CallChunkByLines

SpecWindows == InitWindows /\ [][NextWindows]_vars

\* ==================================================== compact_knowledge
\* most rows of a knowledge table
MaxRows == 3

\* similarity_threshold = 0.85, as a fraction
THRESHOLD_NUM == 85
THRESHOLD_DEN == 100

\* embedding vectors: three directions 0, 26.6 and 45 degrees apart (cosines
\* 0.894, 0.949, 0.707), a multiple of the first, and the zero vector
Vectors == { <<1, 0>>, <<2, 0>>, <<2, 1>>, <<1, 1>>, <<0, 0>> }

\* values of time.time()
Timestamps == {1, 2, 3}

KnowledgeIds == <<"k1", "k2", "k3", "k4">>

Dot(a, b) == a[1] * b[1] + a[2] * b[2]

\* np.dot(normalized[i], normalized[j]) >= similarity_threshold, where a zero
\* vector is left as it is (its norm is replaced by 1): dot / (|a| |b|) >= t,
\* squared; a zero vector has similarity 0 to everything
SimilarAtThreshold(a, b) ==
    /\ Dot(a, b) > 0
    /\ Dot(a, b) * Dot(a, b) * THRESHOLD_DEN * THRESHOLD_DEN
          >= THRESHOLD_NUM * THRESHOLD_NUM * Dot(a, a) * Dot(b, b)

\* older = i if rows[i].get("timestamp", 0) < rows[j].get("timestamp", 0) else j
OlderOf_Later(rows, i, j) == j

OlderOf(rows, i, j) == IF rows[i].timestamp < rows[j].timestamp THEN i ELSE j

\* the loop over j for one i (lines 653-659)
RECURSIVE InnerLoop(_, _, _, _)
InnerLoop(rows, i, j, remove_ids) ==
    IF j > Len(rows) THEN remove_ids
    ELSE IF rows[j].id \in remove_ids THEN InnerLoop(rows, i, j + 1, remove_ids)
    ELSE IF SimilarAtThreshold(rows[i].vector, rows[j].vector)
      THEN LET older == OlderOf(rows, i, j)
           IN InnerLoop(rows, i, j + 1, remove_ids \cup {rows[older].id})
    ELSE InnerLoop(rows, i, j + 1, remove_ids)

\* the loop over i (lines 650-652)
RECURSIVE OuterLoop(_, _, _)
OuterLoop(rows, i, remove_ids) ==
    IF i > Len(rows) THEN remove_ids
    ELSE IF rows[i].id \in remove_ids THEN OuterLoop(rows, i + 1, remove_ids)
    ELSE OuterLoop(rows, i + 1, InnerLoop(rows, i, i + 1, remove_ids))

RemoveIds(rows) == OuterLoop(rows, 1, {})

\* kept = [r for r in rows if r["id"] not in remove_ids]
KeptRows(rows, remove_ids) == SelectSeq(rows, LAMBDA r : r.id \notin remove_ids)

CompactKnowledge ==
    /\ kOp = "none"
    /\ kOp' = "compact_knowledge"
    /\ kBefore' = IF kHandle THEN kTable.rows ELSE <<>>
    /\ IF ~kHandle
         THEN /\ kOut' = NoCompactOut
              /\ UNCHANGED <<kTable, kHandle>>
       ELSE IF Len(kTable.rows) < 2
         THEN /\ kOut' = [removed |-> 0, kept |-> Len(kTable.rows)]
              /\ UNCHANGED <<kTable, kHandle>>
       ELSE LET remove_ids == RemoveIds(kTable.rows)
                kept       == KeptRows(kTable.rows, remove_ids)
            IN /\ kOut' = [removed |-> Cardinality(remove_ids),
                           kept    |-> Len(kTable.rows) - Cardinality(remove_ids)]
               /\ kTable' = IF remove_ids = {} THEN kTable
                            ELSE IF kept # <<>> THEN [exists |-> TRUE, rows |-> kept]
                            ELSE [exists |-> FALSE, rows |-> <<>>]
               /\ kHandle' = IF remove_ids # {} /\ kept = <<>> THEN FALSE ELSE kHandle
    /\ OthersUnchanged("compact")

\* tables of n rows: the ids are distinct (uuid4), row k holds id k
TablesOf(n) ==
    { [k \in 1..n |-> [id |-> KnowledgeIds[k], vector |-> vt[k][1], timestamp |-> vt[k][2]]]
        : vt \in [1..n -> Vectors \X Timestamps] }

\* an engine constructed on a database without a knowledge table, or with one
InitCompact ==
    /\ \/ kTable = [exists |-> FALSE, rows |-> <<>>] /\ kHandle = FALSE
       \/ \E n \in 0..MaxRows : \E rows \in TablesOf(n) :
             kTable = [exists |-> TRUE, rows |-> rows] /\ kHandle = TRUE
    /\ kOp = "none"
    /\ kOut = NoCompactOut
    /\ kBefore = <<>>
    /\ OthersIdle("compact")

NextCompact == CompactKnowledge

SpecCompact == InitCompact /\ [][NextCompact]_vars

\* ============================================ chunk_by_functions, tier 1
\* runs of lines in a source, top-level nodes, children of a node
MaxSegs == 3
MaxTop == 2
MaxChildren == 2

MAX_CHUNK_LINES == 120
GLUE_THRESHOLD == 8

\* languages with a parser
ParserLanguages == {"python", "c"}

\* FUNC_NODE_TYPES[ts_lang], restricted to the node types of the model
FuncTypes(lang) ==
    IF lang = "python" THEN {"function_definition", "class_definition"}
    ELSE {"function_definition", "struct_specifier"}

\* TOP_LEVEL_CONTAINERS: one set for all languages (the union of every
\* language's top_containers; struct_specifier comes from cpp)
TOP_LEVEL_CONTAINERS == {"class_definition", "struct_specifier"}

\* LANGUAGES[lang]["top_containers"]: the container kinds of one language
TopContainers(lang) == IF lang = "python" THEN {"class_definition"} ELSE {}

\* node types of a language's grammar: a definition without definitions
\* inside, a definition that holds definitions, a node that is no definition
LeafType == "function_definition"
HolderType(lang) == IF lang = "python" THEN "class_definition" ELSE "struct_specifier"
PlainType(lang) == IF lang = "python" THEN "decorated_definition" ELSE "preproc_ifdef"

\* a run is one line or MAX_CHUNK_LINES lines
SegLens == {1, MAX_CHUNK_LINES}

RECURSIVE SumLens(_, _)
SumLens(text, k) == IF k = 0 THEN 0 ELSE text[k].len + SumLens(text, k - 1)

\* len(source.split("\n"))
LineCount(text) == SumLens(text, Len(text))

\* node.start_point[0] + 1 and node.end_point[0] + 1
StartLine(text, node) == SumLens(text, node.first - 1) + 1
EndLine(text, node) == SumLens(text, node.last)

\* the run a line lies in
SegOfLine(text, line) ==
    CHOOSE k \in 1..Len(text) : SumLens(text, k - 1) < line /\ line <= SumLens(text, k)

\* line_count > MAX_CHUNK_LINES and node.type in TOP_LEVEL_CONTAINERS
SplitNode(type, line_count, lang) ==
    line_count > MAX_CHUNK_LINES /\ type \in TOP_LEVEL_CONTAINERS

\* gap_text.strip() is not empty
GapHasText(text, a, b) == \E i \in a..b : ~text[SegOfLine(text, i)].blank

\* visit(node): the chunks appended while visiting node; path stands for the
\* node's text and name
RECURSIVE Visit(_, _, _, _)
Visit(node, path, text, lang) ==
    LET start_line == StartLine(text, node)
        end_line   == EndLine(text, node)
        line_count == end_line - start_line + 1
        below      == UNION { Visit(node.children[k], Append(path, k), text, lang)
                                : k \in 1..Len(node.children) }
    IN IF node.type \in FuncTypes(lang)
         THEN IF SplitNode(node.type, line_count, lang)
                THEN below
                ELSE {[start_line |-> start_line, end_line |-> end_line,
                       kind |-> node.type, node |-> path]}
         ELSE below

\* covered after visit(tree.root_node)
CoveredLines(chunks) == UNION {c.start_line .. c.end_line : c \in chunks}

\* the gap scan: every maximal run of uncovered lines, kept if it has text
GapChunks(text, covered) ==
    LET n       == LineCount(text)
        free(i) == i \in 1..n /\ i \notin covered
        starts  == {i \in 1..n : free(i) /\ ~free(i - 1)}
        endOf(a) == CHOOSE b \in a..n : (\A i \in a..b : free(i)) /\ ~free(b + 1)
    IN { [start_line |-> a, end_line |-> endOf(a), kind |-> "gap", node |-> <<>>]
           : a \in {x \in starts : GapHasText(text, x, endOf(x))} }

\* lines 39-109: parse, visit, gap scan; the fixed windows if no chunk results
StructuralTier(text, tree, lang) ==
    LET root   == [type |-> "module", first |-> 1, last |-> Len(text), children |-> tree]
        defs   == Visit(root, <<>>, text, lang)
        chunks == defs \cup GapChunks(text, CoveredLines(defs))
    IN IF chunks = {}
         THEN [tier   |-> "fixed_window",
               chunks |-> { [start_line |-> w.start_line, end_line |-> w.end_line,
                             kind |-> "block", node |-> <<>>]
                              : w \in ChunkByLinesFallback([n |-> LineCount(text), w |-> 0]) }]
         ELSE [tier |-> "structural", chunks |-> chunks]

\* ---- the sources and syntax trees a call can be given
\* a node starts and ends on a line with text; two siblings can share a line
Texts(n) ==
    { t \in [1..n -> [len : SegLens, blank : BOOLEAN]] :
        Cardinality({k \in 1..n : t[k].len > 1}) <= 1 }

InOrder(nodes) ==
    \A k \in 1..(Len(nodes) - 1) : nodes[k + 1].first >= nodes[k].last

NodeSeqs(nodes, most) ==
    { q \in UNION { [1..k -> nodes] : k \in 0..most } : InOrder(q) }

Leaves(lo, hi) ==
    { [type |-> LeafType, first |-> r[1], last |-> r[2], children |-> <<>>]
        : r \in {x \in (lo..hi) \X (lo..hi) : x[1] <= x[2]} }

TopNodes(n, lang) ==
    Leaves(1, n) \cup
    UNION { { [type |-> ty, first |-> r.first, last |-> r.last, children |-> q]
                : ty \in {HolderType(lang), PlainType(lang)},
                  q \in NodeSeqs(Leaves(r.first, r.last), MaxChildren) }
              : r \in Leaves(1, n) }

RECURSIVE FitsText(_, _)
FitsText(text, nodes) ==
    /\ \A k \in 1..Len(nodes) :
          /\ ~text[nodes[k].first].blank
          /\ ~text[nodes[k].last].blank
          /\ FitsText(text, nodes[k].children)
    /\ \A k \in 1..(Len(nodes) - 1) :
          nodes[k + 1].first = nodes[k].last => text[nodes[k].last].len = 1

InitChunker ==
    /\ \E n \in 1..MaxSegs : srcText \in Texts(n)
    /\ srcLang \in ParserLanguages
    /\ srcTree \in NodeSeqs(TopNodes(Len(srcText), srcLang), MaxTop)
    /\ FitsText(srcText, srcTree)
    /\ chOp = "none"
    /\ chOut = NoChunks
    /\ OthersIdle("chunker")

\* chunk_by_functions(source, language) with a parser for the language
CallChunkByFunctions ==
    /\ chOp = "none"
    /\ chOp' = "chunk_by_functions"
    /\ chOut' = StructuralTier(srcText, srcTree, srcLang)
    /\ UNCHANGED <<srcText, srcTree, srcLang>>
    /\ OthersUnchanged("chunker")

NextChunker == CallChunkByFunctions

SpecChunker == InitChunker /\ [][NextChunker]_vars

\* ================================================== get_dependency_graph
\* #include lines of one file
MaxIncludes == 1

\* the files of the project, as paths below project_root (components)
ProjectFiles ==
    { <<"main.c">>, <<"util.h">>, <<"src", "io.c">>, <<"build", "gen.c">>, <<"data.inc">> }

\* files with #include lines
IncludingFiles == { <<"main.c">>, <<"src", "io.c">>, <<"build", "gen.c">> }

\* paths an #include line can name
RawIncludes ==
    { <<"util.h">>, <<"..", "util.h">>, <<"main.c">>, <<"data.inc">>, <<"stdio.h">> }

\* paths a query can be made for
QueryPaths == ProjectFiles \cup { <<"gone.c">> }

\* DEFAULT_IGNORE_DIRS, restricted to the directories of the model
IGNORE_DIRS == {"build"}

\* no path (None)
NoPath == <<>>

\* Path.suffix of the file names of the model
SuffixOf(path) ==
    LET name == path[Len(path)]
    IN IF name \in {"main.c", "io.c", "gen.c", "gone.c"} THEN ".c"
       ELSE IF name = "util.h" THEN ".h"
       ELSE IF name = "stdio.h" THEN ".h"
       ELSE ".inc"

\* ext_to_lang: .c and .h are C, an unknown suffix is "text"
ExtToLang(suffix) == IF suffix \in {".c", ".h"} THEN "c" ELSE "text"

\* os.path.normpath on a relative path: a ".." removes the component before it
RECURSIVE NormFrom(_, _)
NormFrom(done, rest) ==
    IF rest = <<>> THEN done
    ELSE IF Head(rest) = ".." /\ done # <<>> /\ done[Len(done)] # ".."
      THEN NormFrom(SubSeq(done, 1, Len(done) - 1), Tail(rest))
    ELSE NormFrom(Append(done, Head(rest)), Tail(rest))

Normpath(path) == NormFrom(<<>>, path)

\* Path.exists(): the file system follows ".." itself
PathExists(path) == Normpath(path) \in ProjectFiles

\* _resolve_import for c: source_file.parent / import_path, if it exists (no
\* include of the model starts with "/")
ResolveImport(raw, source_file) ==
    LET candidate == SubSeq(source_file, 1, Len(source_file) - 1) \o raw
    IN IF PathExists(candidate) THEN candidate ELSE NoPath

\* walk_code_files(project_root): no file below an ignored directory, only
\* supported suffixes
WalkCodeFiles ==
    { f \in ProjectFiles :
        /\ \A k \in 1..(Len(f) - 1) : f[k] \notin IGNORE_DIRS
        /\ ExtToLang(SuffixOf(f)) # "text" }

\* the #include lines of a file (none for a file without any)
IncludesOf(f) == IF f \in DOMAIN depIncludes THEN depIncludes[f] ELSE {}

NoGraph == [error |-> TRUE, imports |-> {}, imported_by |-> {}]

\* os.path.normpath(resolved) == os.path.normpath(target_str)
SamePath_Unnormalised(resolved, target) == resolved = target

SamePath(resolved, target) == Normpath(resolved) = Normpath(target)

\* the scan for the files that import target (lines 204-222)
ImportedBy(target) ==
    { f \in WalkCodeFiles :
        /\ f # target
        /\ ExtToLang(SuffixOf(f)) # "text"
        /\ \E raw \in IncludesOf(f) :
              LET resolved == ResolveImport(raw, f)
              IN resolved # NoPath /\ SamePath(resolved, target) }

DependencyGraph(target) ==
    IF target \notin ProjectFiles THEN NoGraph
    ELSE IF ExtToLang(SuffixOf(target)) = "text" THEN NoGraph
    ELSE [error       |-> FALSE,
          imports     |-> { [raw |-> raw, resolved |-> ResolveImport(raw, target)]
                              : raw \in IncludesOf(target) },
          imported_by |-> ImportedBy(target)]

GetDependencyGraph(target) ==
    /\ target \notin DOMAIN depResults
    /\ depResults' = [t \in DOMAIN depResults \cup {target} |->
                         IF t = target THEN DependencyGraph(target) ELSE depResults[t]]
    /\ UNCHANGED <<depIncludes, depImpact>>
    /\ OthersUnchanged("deps")

InitDeps ==
    /\ depIncludes \in [IncludingFiles -> {r \in SUBSET RawIncludes : Cardinality(r) <= MaxIncludes}]
    /\ depResults = <<>>
    /\ depImpact = NoImpact
    /\ OthersIdle("deps")

NextDeps == \E target \in QueryPaths : GetDependencyGraph(target)

SpecDeps == InitDeps /\ [][NextDeps]_vars

\* =========================================================== analyze_diff
\* the files a diff can name (paths below project_root)
ChangedSets == SUBSET ProjectFiles

\* os.path.normpath(resolved) in changed_paths
InChanged_Unnormalised(resolved, changed_paths) == resolved \in changed_paths

InChanged(resolved, changed_paths) == Normpath(resolved) \in changed_paths

\* lines 462-485: the scan for files that import a changed file
Impact(changed_paths) ==
    { f \in WalkCodeFiles :
        /\ f \notin changed_paths
        /\ ExtToLang(SuffixOf(f)) # "text"
        /\ \E raw \in IncludesOf(f) :
              LET resolved == ResolveImport(raw, f)
              IN resolved # NoPath /\ InChanged(resolved, changed_paths) }

\* analyze_diff(project_root) when git diff names the files of changed
AnalyzeDiff(changed) ==
    /\ depImpact' = [called |-> TRUE, changed |-> changed, impact |-> Impact(changed)]
    /\ depImpact' # depImpact
    /\ UNCHANGED <<depIncludes, depResults>>
    /\ OthersUnchanged("deps")

NextImpact == \E changed \in ChangedSets : AnalyzeDiff(changed)

SpecImpact == InitDeps /\ [][NextImpact]_vars

\* ============================================ project and global engine
\* server.py: project_engine and global_engine, each RAGEngine(db_path=...)
Engines == {"project", "global"}

DbPath_Shared(e) == "PROJECT_DB"

DbPath(e) == IF e = "project" THEN "PROJECT_DB" ELSE "GLOBAL_DB"

\* ids, and timestamps, of the knowledge entries added in one behaviour
ScopeKnowledgeIds == <<"k1", "k2">>

\* db.drop_table(name), db.create_table(name, data, mode="overwrite")
DbDropTable_All(tables, name) ==
    [n \in DOMAIN tables |-> [exists |-> FALSE, rows |-> IF n = "knowledge" THEN <<>> ELSE {}]]

DbDropTable(tables, name) ==
    [tables EXCEPT ![name] = [exists |-> FALSE, rows |-> IF name = "knowledge" THEN <<>> ELSE {}]]

DbCreateTable(tables, name, rows) ==
    [tables EXCEPT ![name] = [exists |-> TRUE, rows |-> rows]]

\* a database directory without tables and without file_hashes.json
NewDb ==
    [tables |-> [n \in {"code_chunks", "knowledge"} |->
                   [exists |-> FALSE, rows |-> IF n = "knowledge" THEN <<>> ELSE {}]],
     hashes |-> EmptyHashes]

\* index_directory on engine e
ScopeIndexDirectory(e, embedFails, mergeFails, createFails) ==
    LET db      == sStore[DbPath(e)]
        me      == sEngine[e]
        changed == ChangedFiles(me.file_hashes)
        pending == PendingChunks(changed)
        hashes  == ScanHashes(me.file_hashes, changed)
        aborted == EmbedRaises(pending, embedFails)
        w       == WriteTable(me.table, db.tables["code_chunks"], pending, mergeFails, createFails)
        done    == ~aborted /\ w.ok
    IN /\ sEngine' = [sEngine EXCEPT ![e].file_hashes = hashes,
                                     ![e].table = IF aborted THEN me.table ELSE w.open]
       /\ sStore' = [sStore EXCEPT ![DbPath(e)] =
                        [tables |-> IF ~aborted /\ w.wrote
                                      THEN DbCreateTable(db.tables, "code_chunks", w.table.rows)
                                      ELSE db.tables,
                         hashes |-> SavedHashes(done, hashes, db.hashes)]]
       /\ sLast' = [engine |-> e,
                    op |-> IF done THEN (IF changed = {} THEN "index_unchanged" ELSE "index_ok")
                           ELSE "index_aborted"]
       /\ OthersUnchanged("scopes")

\* clear on engine e
ScopeClear(e) ==
    /\ sStore' = [sStore EXCEPT ![DbPath(e)] =
                     [tables |-> DbDropTable(sStore[DbPath(e)].tables, "code_chunks"),
                      hashes |-> EmptyHashes]]
    /\ sEngine' = [sEngine EXCEPT ![e].table = FALSE, ![e].file_hashes = EmptyHashes]
    /\ sLast' = [engine |-> e, op |-> "clear"]
    /\ OthersUnchanged("scopes")

\* RAGEngine(db_path): engine e is constructed again on its database
ScopeConstruct(e) ==
    LET db   == sStore[DbPath(e)]
        open == TryOpenTable(db.tables["code_chunks"], FALSE)
        heal == CacheInvalid(db.hashes, open, db.tables["code_chunks"])
    IN /\ sEngine' = [sEngine EXCEPT ![e] =
                         [table           |-> open,
                          knowledge_table |-> db.tables["knowledge"].exists,
                          file_hashes     |-> IF heal THEN EmptyHashes ELSE db.hashes]]
       /\ sStore' = [sStore EXCEPT ![DbPath(e)].hashes = IF heal THEN EmptyHashes ELSE @]
       /\ sLast' = [engine |-> e, op |-> IF heal THEN "construct_healed" ELSE "construct"]
       /\ OthersUnchanged("scopes")

\* get_status on engine e
ScopeGetStatus(e) ==
    /\ sEngine' = [sEngine EXCEPT ![e].table =
                      TryOpenTable(sStore[DbPath(e)].tables["code_chunks"], FALSE)]
    /\ sLast' = [engine |-> e, op |-> "get_status"]
    /\ UNCHANGED sStore
    /\ OthersUnchanged("scopes")

\* add_knowledge on engine e: a new id, the time of the call
ScopeAddKnowledge(e, k) ==
    LET db     == sStore[DbPath(e)]
        kt     == db.tables["knowledge"]
        record == [id |-> ScopeKnowledgeIds[k], vector |-> <<1, 0>>, timestamp |-> k]
    IN /\ \A p \in DOMAIN sStore : \A i \in 1..Len(sStore[p].tables["knowledge"].rows) :
             sStore[p].tables["knowledge"].rows[i].id # record.id
       /\ sEngine[e].knowledge_table => kt.exists
       /\ sStore' = [sStore EXCEPT ![DbPath(e)].tables =
                        DbCreateTable(db.tables, "knowledge",
                            IF sEngine[e].knowledge_table THEN Append(kt.rows, record)
                            ELSE <<record>>)]
       /\ sEngine' = [sEngine EXCEPT ![e].knowledge_table = TRUE]
       /\ sLast' = [engine |-> e, op |-> "add_knowledge"]
       /\ OthersUnchanged("scopes")

\* remove_knowledge(entry_id) on engine e
ScopeRemoveKnowledge(e, entry_id) ==
    LET db == sStore[DbPath(e)]
        kt == db.tables["knowledge"]
    IN /\ sEngine[e].knowledge_table /\ kt.exists
       /\ sStore' = [sStore EXCEPT ![DbPath(e)].tables =
                        DbCreateTable(db.tables, "knowledge",
                            SelectSeq(kt.rows, LAMBDA r : r.id # entry_id))]
       /\ sLast' = [engine |-> e, op |-> "remove_knowledge"]
       /\ UNCHANGED sEngine
       /\ OthersUnchanged("scopes")

\* compact_knowledge on engine e, with two rows or more
ScopeCompactKnowledge(e) ==
    LET db         == sStore[DbPath(e)]
        kt         == db.tables["knowledge"]
        remove_ids == RemoveIds(kt.rows)
        kept       == KeptRows(kt.rows, remove_ids)
    IN /\ sEngine[e].knowledge_table /\ kt.exists
       /\ Len(kt.rows) >= 2
       /\ sStore' = [sStore EXCEPT ![DbPath(e)].tables =
                        IF remove_ids = {} THEN @
                        ELSE IF kept # <<>> THEN DbCreateTable(@, "knowledge", kept)
                        ELSE DbDropTable(@, "knowledge")]
       /\ sEngine' = [sEngine EXCEPT ![e].knowledge_table = ~(remove_ids # {} /\ kept = <<>>)]
       /\ sLast' = [engine |-> e, op |-> "compact_knowledge"]
       /\ OthersUnchanged("scopes")

\* the code table of a database is dropped by another process
ScopeExternalDrop(p) ==
    /\ sStore[p].tables["code_chunks"].exists
    /\ sStore' = [sStore EXCEPT ![p].tables = DbDropTable(@, "code_chunks")]
    /\ sLast' = [engine |-> "outside", op |-> "external_drop"]
    /\ UNCHANGED sEngine
    /\ OthersUnchanged("scopes")

InitScopes ==
    /\ sStore = [p \in {DbPath(e) : e \in Engines} |-> NewDb]
    /\ sEngine = [e \in Engines |->
                    [table |-> FALSE, knowledge_table |-> FALSE, file_hashes |-> EmptyHashes]]
    /\ sLast = [engine |-> "project", op |-> "construct"]
    /\ OthersIdle("scopes")

NextScopes ==
    \E e \in Engines :
        \/ \E embedFails, mergeFails, createFails \in BOOLEAN :
              ScopeIndexDirectory(e, embedFails, mergeFails, createFails)
        \/ ScopeClear(e)
        \/ ScopeConstruct(e)
        \/ ScopeGetStatus(e)
        \/ \E k \in 1..Len(ScopeKnowledgeIds) : ScopeAddKnowledge(e, k)
        \/ \E k \in 1..Len(ScopeKnowledgeIds) : ScopeRemoveKnowledge(e, ScopeKnowledgeIds[k])
        \/ ScopeCompactKnowledge(e)
        \/ ScopeExternalDrop(DbPath(e))

SpecScopes == InitScopes /\ [][NextScopes]_vars

\* ---------------------------------------------------------------------
\* index_directory statement by statement, searches in between
\* ---------------------------------------------------------------------
\* the order in which the walker yields the files
FileOrder == <<"a.css", "b.css">>

Faults == {"none", "read", "chunk", "deleted"}

\* lines 307-313: collect the files (the walker yields the files that
\* exist), empty pending lists
RunStart ==
    /\ rPc = "idle"
    /\ rPc' = "scan"
    /\ rTodo' = SelectSeq(FileOrder, LAMBDA f : rFault[f] # "deleted")
    /\ rPending' = {}
    /\ rPre' = [rows |-> rTable.rows, hashes |-> rMem]
    /\ UNCHANGED <<rFs, rFault, rTable, rHandle, rMem, rDisk, rSeen>>
    /\ OthersUnchanged("run")

\* lines 315-347: one turn of the loop over files.  A read error is caught
\* (continue); chunk_by_functions is called outside any try block, so what
\* it raises ends the call.
RunScanFile ==
    LET f == Head(rTodo)
        content_hash == {FileHash(rFs[f])}
    IN /\ rPc = "scan"
       /\ rTodo # <<>>
       /\ rTodo' = Tail(rTodo)
       /\ IF rFault[f] = "read" \/ rMem[f] = content_hash
            THEN UNCHANGED <<rPc, rPending, rMem>>
          ELSE IF rFault[f] = "chunk"
            THEN rPc' = "raised" /\ UNCHANGED <<rPending, rMem>>
          ELSE /\ rPending' = rPending \cup RecordsOf(f, rFs[f])
               /\ rMem' = [rMem EXCEPT ![f] = content_hash]
               /\ UNCHANGED rPc
       /\ UNCHANGED <<rFs, rFault, rTable, rHandle, rDisk, rPre, rSeen>>
       /\ OthersUnchanged("run")

\* lines 349-369: encode, then one create_table(mode="overwrite") that
\* replaces the table by the merged rows
RunWrite ==
    LET w == WriteTable(rHandle, rTable, rPending, FALSE, FALSE)
    IN /\ rPc = "scan"
       /\ rTodo = <<>>
       /\ rTable' = w.table
       /\ rHandle' = w.open
       /\ rPc' = "save"
       /\ UNCHANGED <<rFs, rFault, rMem, rDisk, rTodo, rPending, rPre, rSeen>>
       /\ OthersUnchanged("run")

\* lines 371-378: _save_hashes and return
RunSave ==
    /\ rPc = "save"
    /\ rDisk' = rMem
    /\ rPc' = "done"
    /\ UNCHANGED <<rFs, rFault, rTable, rHandle, rMem, rTodo, rPending, rPre, rSeen>>
    /\ OthersUnchanged("run")

\* the rows a query through self.table runs on: none without a handle
QueryRows(open, tbl) == IF open /\ tbl.exists THEN tbl.rows ELSE {}

\* search of another caller, at any point of the call
RunSearch ==
    /\ rSeen' = [rows |-> QueryRows(rHandle, rTable), pc |-> rPc]
    /\ rSeen' # rSeen
    /\ UNCHANGED <<rFs, rFault, rTable, rHandle, rMem, rDisk, rPc, rTodo, rPending, rPre>>
    /\ OthersUnchanged("run")

\* a live engine that indexed an earlier version of the tree completely;
\* the tree has changed since, and some files cannot be read or chunked
InitRun ==
    /\ rFs \in [Files -> Contents]
    /\ rFault \in [Files -> Faults]
    /\ \E old \in [Files -> Contents] :
         LET rows == UNION {RecordsOf(f, old[f]) : f \in Files}
         IN /\ rTable = [exists |-> rows # {}, rows |-> rows]
            /\ rHandle = (rows # {})
            /\ rMem = [f \in Files |-> {FileHash(old[f])}]
            /\ rDisk = rMem
            /\ rSeen = [rows |-> rows, pc |-> "idle"]
    /\ rPc = "idle"
    /\ rTodo = <<>>
    /\ rPending = {}
    /\ rPre = <<>>
    /\ OthersIdle("run")

NextRun ==
    \/ RunStart
    \/ RunScanFile
    \/ RunWrite
    \/ RunSave
    \/ RunSearch

SpecRun == InitRun /\ [][NextRun]_vars

\* ====================================================== get_type_hierarchy
\* declarations found in one scan
MaxDecls == 2

\* one match of a class, interface or impl pattern: the declared name, the
\* names after extends (python: the bases) and the names after implements
\* (rust: the trait of "impl Trait for Type"); a name can be written twice
Declarations ==
    [name       : {"A", "B", "C"},
     extends    : {<<>>, <<"A">>, <<"B">>, <<"C">>, <<"B", "C">>, <<"B", "B">>},
     implements : {<<>>, <<"C">>, <<"A">>}]

\* if x not in list: list.append(x)
AppendUnique_Always(list, x) == Append(list, x)

AppendUnique(list, x) ==
    IF \E k \in 1..Len(list) : list[k] = x THEN list ELSE Append(list, x)

\* _ensure_type: a new entry at the end of the dict unless the name has one
EnsureType(types, name) ==
    IF \E k \in 1..Len(types) : types[k].name = name
      THEN types
      ELSE Append(types, [name |-> name, extends |-> <<>>, implements |-> <<>>,
                          implemented_by |-> <<>>, extended_by |-> <<>>])

\* types[name][field] gets x unless it holds it (nothing if name has no entry)
AddTo(types, name, field, x) ==
    [k \in 1..Len(types) |->
        IF types[k].name = name
          THEN [types[k] EXCEPT ![field] = AppendUnique(@, x)]
          ELSE types[k]]

\* the loop over the bases or interfaces of one declaration
RECURSIVE ForwardEdges(_, _, _, _)
ForwardEdges(types, name, field, targets) ==
    IF targets = <<>> THEN types
    ELSE ForwardEdges(AddTo(EnsureType(types, Head(targets)), name, field, Head(targets)),
                      name, field, Tail(targets))

\* the first pass: the loop over files and matches
RECURSIVE ForwardPass(_, _)
ForwardPass(types, decls) ==
    IF decls = <<>> THEN types
    ELSE LET d  == Head(decls)
             t1 == EnsureType(types, d.name)
             t2 == ForwardEdges(t1, d.name, "extends", d.extends)
             t3 == ForwardEdges(t2, d.name, "implements", d.implements)
         IN ForwardPass(t3, Tail(decls))

\* the second pass for one entry and one of its forward lists
RECURSIVE InverseEdges(_, _, _, _)
InverseEdges(types, name, targets, inverse) ==
    IF targets = <<>> THEN types
    ELSE InverseEdges(AddTo(types, Head(targets), inverse, name), name, Tail(targets), inverse)

\* the second pass: for name, info in types.items()
RECURSIVE InversePass(_, _)
InversePass(types, k) ==
    IF k > Len(types) THEN types
    ELSE LET t1 == InverseEdges(types, types[k].name, types[k].extends, "extended_by")
             t2 == InverseEdges(t1, types[k].name, types[k].implements, "implemented_by")
         IN InversePass(t2, k + 1)

GetTypeHierarchy ==
    /\ ~thOut.called
    /\ thOut' = [called |-> TRUE, types |-> InversePass(ForwardPass(<<>>, thDecls), 1)]
    /\ UNCHANGED thDecls
    /\ OthersUnchanged("types")

InitTypes ==
    /\ thDecls \in UNION { [1..n -> Declarations] : n \in 0..MaxDecls }
    /\ thOut = [called |-> FALSE, types |-> <<>>]
    /\ OthersIdle("types")

SpecTypes == InitTypes /\ [][GetTypeHierarchy]_vars

\* ============================================= walk_code_files, libraries
\* the path below the project root as a string: the names joined by "/",
\* a name taken as its character groups ("vendor2" is "vendor" then "2")
RECURSIVE PathString(_)
PathString(path) ==
    LET chars(name) == IF name = "vendor2" THEN <<"vendor", "2">> ELSE <<name>>
    IN IF path = <<>> THEN <<>>
       ELSE IF Len(path) = 1 THEN chars(path[1])
       ELSE chars(path[1]) \o <<"/">> \o PathString(Tail(path))

\* lines 121-129: normpath(join(abs_dir, d)).startswith(lib_abs) or
\* normpath(join(abs_dir, d)) == lib_abs, for some library root
PrunedByLibs(dir, libs) ==
    \E lib \in libs :
        LET s == PathString(dir)
            p == PathString(lib)
        IN \/ Len(p) <= Len(s) /\ SubSeq(s, 1, Len(p)) = p
           \/ s = p

\* the files yielded: os.walk top-down, a pruned directory is not entered
\* (every file of the model has a supported suffix and a small size)
WalkFiles(files, libs, exclude_libs) ==
    { f \in files :
        \A k \in 1..(Len(f) - 1) :
            /\ f[k] \notin IGNORE_DIRS
            /\ ~(exclude_libs /\ libs # {} /\ PrunedByLibs(SubSeq(f, 1, k), libs)) }

\* walk_code_files(project_root, exclude_libs=...)
WalkCall(exclude_libs) ==
    /\ wOut' = [called |-> TRUE, exclude_libs |-> exclude_libs,
                files |-> WalkFiles(wFiles, wLibs, exclude_libs)]
    /\ wOut' # wOut
    /\ UNCHANGED <<wFiles, wLibs>>
    /\ OthersUnchanged("walk")

\* a project with a library directory, a directory inside it, a sibling whose
\* name starts with the library's name and a directory of the same name
\* elsewhere; any of "vendor" and "src/vendor" configured as library roots
InitWalk ==
    /\ wFiles \in SUBSET { <<"main.py">>, <<"vendor", "a.py">>, <<"vendor", "pkg", "b.py">>,
                            <<"vendor2", "c.py">>, <<"src", "d.py">>,
                            <<"src", "vendor", "e.py">> }
    /\ wLibs \in SUBSET { <<"vendor">>, <<"src", "vendor">> }
    /\ wOut = [called |-> FALSE, exclude_libs |-> FALSE, files |-> {}]
    /\ OthersIdle("walk")

SpecWalk == InitWalk /\ [][\E exclude_libs \in BOOLEAN : WalkCall(exclude_libs)]_vars

TypeOK ==
    /\ fs \in [Files -> Contents]
    /\ unreadable \subseteq Files
    /\ edits \in 0..MaxEdits
    /\ tableOpen \in BOOLEAN
    /\ scope \in {"never_indexed", "cleared", "written"}
    /\ dbTable.exists \in BOOLEAN

\* ------------------------------------------------------------- the claims

RowsOf(f) == {r \in Rows : r.source = f}

\* C1: after a completed index_directory run, no record of a file the run
\* treated as changed comes from another content than the file's current one
\* (also when the new content yields no chunk of 10 trimmed characters).
C1_NoStaleChunkSurvives ==
    lastOp = "index_ok" =>
        \A f \in lastRun.changed : \A r \in RowsOf(f) : r.content.of = fs[f]

\* C2: in every reachable state all records of one source file come from one
\* content version of that file.
C2_OneVersionPerFile ==
    \A r1 \in Rows : \A r2 \in Rows :
        r1.source = r2.source => r1.content.of = r2.content.of

\* a completed run replaced the records of a changed file that had records of
\* an older content, and the file now has two records
C2_Witness ==
    /\ lastOp = "index_ok"
    /\ \E f \in lastRun.replaced : Cardinality(RowsOf(f)) >= 2

\* C3: an index_directory call leaves the records of every file outside its
\* changed set exactly as they were (none added, removed or altered).
C3_UnchangedRecordsUntouched ==
    [][ lastOp' \in IndexOps =>
          {r \in Rows : r.source \notin lastRun'.changed}
            = {r \in Rows' : r.source \notin lastRun'.changed} ]_vars

\* C4: an index_directory call aborted by the embedding provider leaves the
\* table, the persisted hash map and the engine's hash map as they were.
C4_AbortCommitsNothing ==
    [][ lastOp' = "index_embed_error" =>
          /\ dbTable' = dbTable
          /\ diskHashes' = diskHashes
          /\ memHashes' = memHashes ]_vars

\* C5: the index_directory call that follows a call aborted by the embedding
\* provider (same engine, same file contents) skips no file of the aborted
\* batch as unchanged.
C5_RetryReprocessesBatch ==
    [][ (lastOp = "index_embed_error" /\ lastOp' \in IndexOps) =>
          lastRun.changed \cap lastRun'.skipped = {} ]_vars

\* C6: an index_directory call changes the persisted hash map only when its
\* table write (if any) completed; a call whose table write fails leaves the
\* persisted map as it was.
C6_HashesSavedAfterWrite ==
    [][ lastOp' \in IndexOps =>
          /\ (diskHashes' # diskHashes => lastOp' = "index_ok")
          /\ (lastOp' = "index_store_error" => diskHashes' = diskHashes) ]_vars

\* a table write failed and the persisted map still lacks the hashes the
\* engine recorded in memory during the run
C6_Witness ==
    /\ lastOp = "index_store_error"
    /\ lastRun.changed # {}
    /\ diskHashes # memHashes

\* C7: an index_directory call that directly follows a completed one (no file
\* changed in between) completes and reports indexed = 0 and skipped_unchanged
\* = the number of readable files.
C7_SecondRunSkipsAll ==
    [][ (lastOp = "index_ok" /\ lastOp' \in IndexOps) =>
          /\ lastOp' = "index_ok"
          /\ lastRun'.result.indexed = 0
          /\ lastRun'.result.skipped_unchanged = Cardinality(Readable) ]_vars

\* a run that skipped every file, one of them without any chunk and one of
\* them with two
C7_Witness ==
    /\ lastOp = "index_ok"
    /\ lastRun.result.indexed = 0
    /\ lastRun.result.skipped_unchanged = Cardinality(Files)
    /\ \E f \in Files : RecordsOf(f, fs[f]) = {}
    /\ \E f \in Files : Cardinality(RecordsOf(f, fs[f])) = 2 /\ RowsOf(f) = RecordsOf(f, fs[f])

C9_StatusHealsDroppedTable ==
    [][ (lastOp = "external_drop" /\ memHashes # EmptyHashes /\ lastOp' = "get_status") =>
          (~tableOpen' /\ memHashes' = EmptyHashes) ]_vars

LinesOf(ch) == ch.start_line .. ch.end_line

\* the returned list is built by increasing start line: b follows a in it
FollowsInList(S, a, b) ==
    /\ a.start_line < b.start_line
    /\ ~\E c \in S : a.start_line < c.start_line /\ c.start_line < b.start_line

FirstOf(S) == CHOOSE a \in S : \A b \in S : a.start_line <= b.start_line
LastOf(S) == CHOOSE a \in S : \A b \in S : a.start_line >= b.start_line

CeilDiv(a, b) == (a + b - 1) \div b

\* C14: the windows _chunk_by_lines_fallback returns for an N-line text: the
\* first starts at line 1, the last ends at line N, none spans more than 60
\* lines, together they cover exactly the lines 1..N, and two consecutive
\* windows share exactly 10 lines.
C14_WindowsCoverFile ==
    winOp = "_chunk_by_lines_fallback" =>
        /\ winOut # {}
        /\ \A a \in winOut : \A b \in winOut : a.start_line = b.start_line => a = b
        /\ FirstOf(winOut).start_line = 1
        /\ LastOf(winOut).end_line = winN
        /\ \A a \in winOut : Cardinality(LinesOf(a)) \in 1..CHUNK_LINES
        /\ UNION {LinesOf(a) : a \in winOut} = 1..winN
        /\ \A a \in winOut : \A b \in winOut :
              FollowsInList(winOut, a, b) =>
                  Cardinality(LinesOf(a) \cap LinesOf(b)) = OVERLAP_LINES

\* the fallback returned four windows, the last one shorter than a full window
C14_Witness ==
    /\ winOp = "_chunk_by_lines_fallback"
    /\ Cardinality(winOut) = 4
    /\ Cardinality(LinesOf(LastOf(winOut))) < CHUNK_LINES

\* C15: both fixed-window chunkers start window k at line 50k+1 and stop at
\* the first window that reaches line N: one window when N <= 60,
\* ceil((N-10)/50) windows when N > 60, and in both cases ceil(N/50) or
\* ceil(N/50) - 1 windows.
C15_WindowCount ==
    winOp # "none" =>
        LET step  == CHUNK_LINES - OVERLAP_LINES
            count == Cardinality(winOut)
        IN /\ {a.start_line : a \in winOut} = {step * k + 1 : k \in 0 .. count - 1}
           /\ Cardinality({a.start_line : a \in winOut}) = count
           /\ \A a \in winOut : a.end_line >= winN <=> a = LastOf(winOut)
           /\ winN <= CHUNK_LINES => count = 1
           /\ winN > CHUNK_LINES => count = CeilDiv(winN - OVERLAP_LINES, step)
           /\ count \in {CeilDiv(winN, step), CeilDiv(winN, step) - 1}

\* _chunk_by_lines returned three windows, one fewer than ceil(N/50)
C15_Witness ==
    /\ winOp = "_chunk_by_lines"
    /\ winN > CHUNK_LINES
    /\ Cardinality(winOut) = 3
    /\ Cardinality(winOut) = CeilDiv(winN, CHUNK_LINES - OVERLAP_LINES) - 1

\* ------------------------------------------------- claims on compaction
\* cosine similarity 1.0: the same direction
CosineOne(a, b) ==
    Dot(a, b) > 0 /\ Dot(a, b) * Dot(a, b) = Dot(a, a) * Dot(b, b)

\* C12: compact_knowledge on a table of exactly two entries whose vectors have
\* cosine similarity 1.0 and whose timestamps differ leaves exactly the entry
\* with the later timestamp in the table and returns removed = 1, kept = 1, in
\* both row orders.
C12_NewerOfTwoDuplicatesKept ==
    [][ ( /\ kOp' = "compact_knowledge"
          /\ kHandle
          /\ Len(kTable.rows) = 2
          /\ CosineOne(kTable.rows[1].vector, kTable.rows[2].vector)
          /\ kTable.rows[1].timestamp # kTable.rows[2].timestamp ) =>
            LET newer == IF kTable.rows[1].timestamp > kTable.rows[2].timestamp
                           THEN kTable.rows[1] ELSE kTable.rows[2]
            IN /\ kTable' = [exists |-> TRUE, rows |-> <<newer>>]
               /\ kHandle'
               /\ kOut' = [removed |-> 1, kept |-> 1] ]_vars

\* of two entries with different vectors of one direction, the second row was
\* the older one and was removed
C12_Witness ==
    /\ kOp = "compact_knowledge"
    /\ Len(kBefore) = 2
    /\ CosineOne(kBefore[1].vector, kBefore[2].vector)
    /\ kBefore[1].vector # kBefore[2].vector
    /\ kBefore[2].timestamp < kBefore[1].timestamp
    /\ kTable.rows = <<kBefore[1]>>

\* the entries of a sequence of rows
RowSet(rows) == {rows[k] : k \in 1..Len(rows)}

\* the same rows in another table order
Reordered(rows) ==
    { [k \in 1..Len(rows) |-> rows[p[k]]] :
        p \in {q \in [1..Len(rows) -> 1..Len(rows)] :
                 \A a, b \in 1..Len(rows) : a # b => q[a] # q[b]} }

\* C27: every entry compact_knowledge removed is at or above the threshold
\* to a retained entry that is not older than it, no two retained entries are
\* at or above the threshold, and the retained entries are the same for
\* every order of the table's rows.
C27_RemovedHasNewerSurvivor ==
    (kOp = "compact_knowledge" /\ Len(kBefore) >= 2) =>
        LET retained == RowSet(kTable.rows)
        IN /\ \A r \in RowSet(kBefore) \ retained :
                 \E q \in retained :
                     /\ SimilarAtThreshold(r.vector, q.vector)
                     /\ q.timestamp >= r.timestamp
           /\ \A q1, q2 \in retained :
                 q1 # q2 => ~SimilarAtThreshold(q1.vector, q2.vector)
           /\ \A other \in Reordered(kBefore) :
                 RowSet(KeptRows(other, RemoveIds(other))) = retained

\* ------------------------------------------- claims on the structural tier
ChunksAt(i) == {c \in chOut.chunks : i \in c.start_line .. c.end_line}

\* C13: when the structural tier of chunk_by_functions returns at least one
\* chunk, every line 1..N of the file lies in the range of exactly one
\* returned chunk: no line is uncovered and no two ranges overlap.
C13_EveryLineInOneChunk ==
    (chOp = "chunk_by_functions" /\ chOut.tier = "structural") =>
        \A i \in 1..LineCount(srcText) : Cardinality(ChunksAt(i)) = 1

\* the chunks returned for the node at a path of the syntax tree
ChunksOfNode(path) == {c \in chOut.chunks : c.node = path}

\* the one chunk a definition node is emitted as
NodeChunk(node, path) ==
    [start_line |-> StartLine(srcText, node), end_line |-> EndLine(srcText, node),
     kind |-> node.type, node |-> path]

NodeLines(node) == EndLine(srcText, node) - StartLine(srcText, node) + 1

\* every child of the top-level node k is emitted as one chunk
ChildrenEmitted(k) ==
    \A j \in 1..Len(srcTree[k].children) :
        ChunksOfNode(<<k, j>>) = {NodeChunk(srcTree[k].children[j], <<k, j>>)}

\* C21: a definition node of a container kind of the file's language that
\* spans more than 120 lines is not emitted and its children are; every
\* other definition node reached is emitted as one chunk over its full line
\* range and no node below it is emitted.
C21_OversizedContainerSplit ==
    chOp = "chunk_by_functions" =>
        \A k \in 1..Len(srcTree) :
            LET node == srcTree[k]
            IN IF node.type \notin FuncTypes(srcLang)
                 THEN ChunksOfNode(<<k>>) = {} /\ ChildrenEmitted(k)
               ELSE IF node.type \in TopContainers(srcLang) /\ NodeLines(node) > MAX_CHUNK_LINES
                 THEN ChunksOfNode(<<k>>) = {} /\ ChildrenEmitted(k)
               ELSE /\ ChunksOfNode(<<k>>) = {NodeChunk(node, <<k>>)}
                    /\ \A j \in 1..Len(node.children) : ChunksOfNode(<<k, j>>) = {}

\* C22: in a C file (container set empty) a struct_specifier of more than
\* 120 lines is emitted as one chunk.
C22_SplitDecidedByOwnLanguage ==
    (chOp = "chunk_by_functions" /\ srcLang = "c") =>
        \A k \in 1..Len(srcTree) :
            (srcTree[k].type = "struct_specifier" /\ NodeLines(srcTree[k]) > MAX_CHUNK_LINES) =>
                ChunksOfNode(<<k>>) = {NodeChunk(srcTree[k], <<k>>)}

\* C23: every gap chunk of the structural tier is at least 8 lines long.
C23_GapAtLeastThreshold ==
    (chOp = "chunk_by_functions" /\ chOut.tier = "structural") =>
        \A c \in chOut.chunks :
            c.kind = "gap" => c.end_line - c.start_line + 1 >= GLUE_THRESHOLD

\* --------------------------------------- claims on the dependency graph
\* the graph returned for a lists an import that resolves to the file b
ListsImportOf(a, b) ==
    \E imp \in depResults[a].imports :
        imp.resolved # NoPath /\ Normpath(imp.resolved) = b /\ b \in ProjectFiles

\* C16: for all files A and B, if get_dependency_graph(A) lists an import
\* whose resolved path is the existing file B, then get_dependency_graph(B)
\* lists A in imported_by.
C16_ImportImpliesImportedBy ==
    \A a \in DOMAIN depResults : \A b \in DOMAIN depResults :
        ListsImportOf(a, b) => a \in depResults[b].imported_by

\* C16, amended: the same for every file A that walk_code_files yields and
\* every other file B of a supported language (for which the query returns
\* a graph and not an error).
C16_WalkedImporterListed ==
    \A a \in DOMAIN depResults : \A b \in DOMAIN depResults :
        ( /\ ListsImportOf(a, b)
          /\ a \in WalkCodeFiles
          /\ a # b
          /\ ~depResults[b].error ) => a \in depResults[b].imported_by

\* src/io.c includes "../util.h"; both files were queried and util.h's graph
\* lists src/io.c
C16_Witness ==
    /\ <<"src", "io.c">> \in DOMAIN depResults
    /\ <<"util.h">> \in DOMAIN depResults
    /\ [raw |-> <<"..", "util.h">>, resolved |-> <<"src", "..", "util.h">>]
          \in depResults[<<"src", "io.c">>].imports
    /\ <<"src", "io.c">> \in depResults[<<"util.h">>].imported_by

\* ------------------------------------------- claims on the change impact
\* the walked files with an import that resolves to a file of the diff
ImportersOfChanged ==
    { f \in WalkCodeFiles :
        \E raw \in IncludesOf(f) :
            /\ PathExists(SubSeq(f, 1, Len(f) - 1) \o raw)
            /\ Normpath(SubSeq(f, 1, Len(f) - 1) \o raw) \in depImpact.changed }

\* C24: the impact set of analyze_diff is exactly the set of walked files
\* that resolve an import to a changed file, changed importers included.
C24_ImpactIsImporters ==
    depImpact.called => depImpact.impact = ImportersOfChanged

\* C24 as the code has it: the impact set is exactly the set of walked files
\* that are not in the diff themselves and resolve an import to a changed
\* file.
C24_ImpactIsUnchangedImporters ==
    depImpact.called => depImpact.impact = ImportersOfChanged \ depImpact.changed

\* main.c and util.h are in the diff, main.c includes util.h, and io.c, which
\* reaches util.h through "..", is the impact
C24_Witness ==
    /\ depImpact.called
    /\ depImpact.changed = { <<"main.c">>, <<"util.h">> }
    /\ <<"main.c">> \in ImportersOfChanged
    /\ depImpact.impact = { <<"src", "io.c">> }

\* ----------------------------------------- claims on the type hierarchy
\* the names a list holds
Names(list) == {list[k] : k \in 1..Len(list)}

NoneTwice(list) == \A a, b \in 1..Len(list) : a # b => list[a] # list[b]

\* C25: in the result of get_type_hierarchy every forward edge has its
\* inverse edge and every inverse edge its forward edge (extends with
\* extended_by, implements with implemented_by), every target of a forward
\* edge is a node, and no list holds a name twice.
C25_InverseMirrorsForward ==
    thOut.called =>
        LET nodes == Names(thOut.types)
            named == {n.name : n \in nodes}
        IN /\ \A x, y \in nodes :
                 /\ y.name \in Names(x.extends) <=> x.name \in Names(y.extended_by)
                 /\ y.name \in Names(x.implements) <=> x.name \in Names(y.implemented_by)
           /\ \A x \in nodes :
                 /\ Names(x.extends) \cup Names(x.implements) \subseteq named
                 /\ Names(x.extended_by) \cup Names(x.implemented_by) \subseteq named
                 /\ NoneTwice(x.extends) /\ NoneTwice(x.implements)
                 /\ NoneTwice(x.extended_by) /\ NoneTwice(x.implemented_by)
           /\ \A a, b \in 1..Len(thOut.types) :
                 a # b => thOut.types[a].name # thOut.types[b].name

\* a base written twice in one declaration, and a type extended by two others
C25_Witness ==
    /\ thOut.called
    /\ \E k \in 1..Len(thDecls) : thDecls[k].extends = <<"B", "B">>
    /\ \E n \in Names(thOut.types) : Len(n.extended_by) = 2

\* ------------------------------------------------- claims on the walker
\* the file lies in a configured library root or below one
UnderLibRoot(f) ==
    \E lib \in wLibs : \E k \in 1..(Len(f) - 1) : SubSeq(f, 1, k) = lib

\* C26: a walk with library exclusion omits a file iff the file lies under
\* a configured library root (no directory of the project is an ignored one).
C26_OmittedIffUnderLibRoot ==
    (wOut.called /\ wOut.exclude_libs) =>
        \A f \in wFiles : f \notin wOut.files <=> UnderLibRoot(f)

\* ------------------------------------------------- claims on the scopes
KnowledgeOf(store, p) == store[p].tables["knowledge"]

\* C11: no code-index operation (index_directory that finds changed files or
\* none, completes or is aborted; clear; the cache check of a newly
\* constructed engine) changes the knowledge table of any database.
C11_KnowledgeUntouched ==
    [][ sLast'.op \in {"index_ok", "index_unchanged", "index_aborted", "clear",
                       "construct", "construct_healed"} =>
          \A p \in DOMAIN sStore : KnowledgeOf(sStore', p) = KnowledgeOf(sStore, p) ]_vars

\* an engine constructed on a database with two knowledge entries cleared its
\* hash cache
C11_Witness ==
    /\ sLast.op = "construct_healed"
    /\ Len(KnowledgeOf(sStore, DbPath(sLast.engine)).rows) = 2

C20_StoreFailureReportedUnindexed ==
    [][ /\ lastOp' # "index_store_error"
        /\ (lastOp = "index_store_error" /\ lastOp' = "get_status" =>
              out'.status = NoStatus) ]_vars

\* ------------------------------- claims on the call taken step by step
RowsOfFile(rows, f) == {r \in rows : r.source = f}

C19_FailedFileSkippedOnly ==
    /\ rPc # "raised"
    /\ rPc = "done" =>
         \A f \in Files :
            IF rFault[f] \in {"read", "chunk"}
              THEN /\ RowsOfFile(rTable.rows, f) = RowsOfFile(rPre.rows, f)
                   /\ rMem[f] = rPre.hashes[f]
              ELSE (/\ rFault[f] = "none"
                    /\ rPre.hashes[f] # {FileHash(rFs[f])}
                    /\ RecordsOf(f, rFs[f]) # {}) =>
                   /\ RowsOfFile(rTable.rows, f) = RecordsOf(f, rFs[f])
                   /\ rDisk[f] = {FileHash(rFs[f])}

\* C29: when an index_directory call is over, the table holds no record and
\* the hash cache (in memory and persisted) no entry of a file that was
\* deleted from the tree since the previous run.
C29_DeletedFilesRemoved ==
    rPc = "done" =>
        \A f \in Files :
            rFault[f] = "deleted" =>
                /\ RowsOfFile(rTable.rows, f) = {}
                /\ rMem[f] = NoHash
                /\ rDisk[f] = NoHash

\* -------------------------------------------- claims on cache and ids
\* for every file with a hash in the cache, the table's records of the file
\* are the records of the content with that hash
CacheAgrees ==
    \A f \in Files :
        memHashes[f] # NoHash =>
            \E c \in Contents :
                /\ memHashes[f] = {FileHash(c)}
                /\ {r \in Rows : r.source = f} = RecordsOf(f, c)

\* C28: a completed index_directory call and a clear call on an engine whose
\* handle follows the table keep the hash cache and the table in agreement
\* (they agree on a new engine, so they agree after every sequence of such
\* calls).
C28_CacheAgreesWithTable ==
    [][ (/\ CacheAgrees
         /\ tableOpen = dbTable.exists
         /\ lastOp' \in {"index_ok", "clear"}) => CacheAgrees' ]_vars

\* C30: the chunks chunk_by_functions returns for one file have pairwise
\* different (start_line, end_line), so the ids file:start-end are unique.
C30_ChunkIdsUnique ==
    chOp = "chunk_by_functions" =>
        \A c1, c2 \in chOut.chunks :
            c1 # c2 => <<c1.start_line, c1.end_line>> # <<c2.start_line, c2.end_line>>

====
